---- MODULE Spec2Model ----
(***************************************************************************)
(* Layout view model of one row of the notebook diff editor                *)
(* (diffElementViewModel.ts): DiffElementViewModelBase and its two         *)
(* subclasses, SideBySideDiffElementViewModel and                          *)
(* SingleSideDiffElementViewModel, and getFormatedMetadataJSON.            *)
(*                                                                         *)
(* Strings are sequences of one-character strings, so that JSON.stringify, *)
(* the JSON formatter and the string hash are computed character by        *)
(* character.                                                              *)
(***************************************************************************)
EXTENDS Integers, Sequences, FiniteSets, TLC

\* ------------------------------------------------------------- bounds
\* A height or margin written by a setter or reported by a nested cell is
\* 0 or MaxHeight.
MaxHeight == 1
\* Metadata values range over 0..MaxValue.
MaxValue == 1
\* Output lists hold at most MaxOutputs outputs, each one of 1..MaxOutput.
MaxOutputs == 2
MaxOutput == 2

\* ----------------------------------------------------- program constants
MetadataStatusHeight0 == 25
OutputStatusHeight0 == 25
BodyMargin0 == 32
TotalHeight0 == 82
EmptyOutputHeight == 24

Expanded == "Expanded"
Collapsed == "Collapsed"
PropertyFoldingState == {Expanded, Collapsed}

\* The value undefined of the source language.
Undefined == "undefined"

Heights == {0, MaxHeight}

\* The output status bar is hidden or has its initial height.
StatusHeights == {0, OutputStatusHeight0}

\* ------------------------------------------------------------- strings
\* The characters of the string literals the model uses.
Chars(s) ==
    CASE s = "language"       -> <<"l","a","n","g","u","a","g","e">>
      [] s = "executionOrder" -> <<"e","x","e","c","u","t","i","o","n","O","r","d","e","r">>
      [] s = "runStartTime"   -> <<"r","u","n","S","t","a","r","t","T","i","m","e">>
      [] s = "py"             -> <<"p","y">>
      [] s = "js"             -> <<"j","s">>

\* String.prototype.charCodeAt for the characters that occur.
CharCode(c) ==
    CASE c = "\t" -> 9   [] c = "\n" -> 10  [] c = " " -> 32   [] c = "\"" -> 34
      [] c = "," -> 44   [] c = ":" -> 58   [] c = "{" -> 123  [] c = "}" -> 125
      [] c = "0" -> 48   [] c = "1" -> 49   [] c = "2" -> 50   [] c = "3" -> 51
      [] c = "4" -> 52   [] c = "5" -> 53   [] c = "6" -> 54   [] c = "7" -> 55
      [] c = "8" -> 56   [] c = "9" -> 57
      [] c = "O" -> 79   [] c = "S" -> 83   [] c = "T" -> 84
      [] c = "a" -> 97   [] c = "c" -> 99   [] c = "d" -> 100  [] c = "e" -> 101
      [] c = "g" -> 103  [] c = "i" -> 105  [] c = "j" -> 106  [] c = "l" -> 108
      [] c = "m" -> 109  [] c = "n" -> 110  [] c = "o" -> 111  [] c = "p" -> 112
      [] c = "r" -> 114  [] c = "s" -> 115  [] c = "t" -> 116  [] c = "u" -> 117
      [] c = "x" -> 120  [] c = "y" -> 121

Digit(d) == <<"0","1","2","3","4","5","6","7","8","9">>[d + 1]

\* Number.prototype.toString for a natural number.
RECURSIVE NumberChars(_)
NumberChars(n) == IF n < 10 THEN <<Digit(n)>> ELSE NumberChars(n \div 10) \o <<Digit(n % 10)>>

\* ---------------------------------------------------------------- JSON
\* An own enumerable property of an object literal: a key with a string
\* value (kind "string", value a string literal of Chars) or a number.
StringEntry(k, v) == [key |-> k, kind |-> "string", value |-> v]
NumberEntry(k, v) == [key |-> k, kind |-> "number", value |-> v]

Quoted(s) == <<"\"">> \o Chars(s) \o <<"\"">>

ValueChars(e) == IF e.kind = "string" THEN Quoted(e.value) ELSE NumberChars(e.value)

\* JSON.stringify of an object whose properties are `entries`, in
\* insertion order, with no white space.
RECURSIVE MemberChars(_)
MemberChars(entries) ==
    IF entries = <<>> THEN <<>>
    ELSE Quoted(Head(entries).key) \o <<":">> \o ValueChars(Head(entries))
         \o (IF Tail(entries) = <<>> THEN <<>> ELSE <<",">> \o MemberChars(Tail(entries)))

JSONStringify(entries) == <<"{">> \o MemberChars(entries) \o <<"}">>

\* applyEdits(content, format(content, undefined, {})): the JSON formatter
\* with its default options (indentation by one tab, "\n" as end of line),
\* on an object with no nested object or array and no escaped quote.
\* Position i of content lies inside a string literal when an odd number of
\* quotes precedes it.
InString(content, i) == Cardinality({j \in 1..(i - 1) : content[j] = "\""}) % 2 = 1

\* What the formatter makes of the character at position i.
FormatChar(content, i) ==
    LET c == content[i]
    IN  CASE c = "\"" \/ InString(content, i) -> <<c>>
          [] c = "{" -> IF i < Len(content) /\ content[i + 1] = "}"
                        THEN <<c>> ELSE <<c, "\n", "\t">>
          [] c = "}" -> IF i > 1 /\ content[i - 1] = "{"
                        THEN <<c>> ELSE <<"\n", c>>
          [] c = "," -> <<c, "\n", "\t">>
          [] c = ":" -> <<c, " ">>
          [] OTHER -> <<c>>

RECURSIVE FormatRange(_, _, _)
FormatRange(content, lo, hi) ==
    IF lo > hi THEN <<>>
    ELSE IF lo = hi THEN FormatChar(content, lo)
    ELSE LET mid == (lo + hi) \div 2
         IN  FormatRange(content, lo, mid) \o FormatRange(content, mid + 1, hi)

format(content) == CHOOSE r \in {FormatRange(c, 1, Len(c)) : c \in {content}} : TRUE

\* ---------------------------------------------------------------- hash
\* ((initialHashVal << 5) - initialHashVal + val) | 0, on 32-bit signed
\* integers, computed on 16-bit halves so that no intermediate overflows.
Int32Times31Plus(h, val) ==
    LET lo == h % 65536
        hi == (h - lo) \div 65536
        t == 31 * lo + val
        lo2 == t % 65536
        hi2 == (31 * hi + ((t - lo2) \div 65536)) % 65536
    IN  (IF hi2 >= 32768 THEN hi2 - 65536 ELSE hi2) * 65536 + lo2

numberHash(val, initialHashVal) ==
    CHOOSE r \in {Int32Times31Plus(h, val) : h \in {initialHashVal}} : TRUE

\* The loop of stringHash over the characters lo..hi of s, from left to
\* right, starting from hashVal.
RECURSIVE CharsHash(_, _, _, _)
CharsHash(s, lo, hi, hashVal) ==
    IF lo > hi THEN hashVal
    ELSE IF lo = hi THEN numberHash(CharCode(s[lo]), hashVal)
    ELSE LET mid == (lo + hi) \div 2
         IN  CHOOSE r \in {CharsHash(s, mid + 1, hi, left) :
                           left \in {CharsHash(s, lo, mid, hashVal)}} : TRUE

stringHash(s, hashVal) == CharsHash(s, 1, Len(s), numberHash(149417, hashVal))

RECURSIVE ItemsHash(_, _)
ItemsHash(arr, hashVal) ==
    IF arr = <<>> THEN hashVal
    ELSE ItemsHash(Tail(arr), numberHash(Head(arr), hashVal))

arrayHash(arr, initialHashVal) == ItemsHash(arr, numberHash(104579, initialHashVal))

\* hash(obj) for a string and for an array of numbers.
hashString(s) == CHOOSE r \in {stringHash(x, 0) : x \in {s}} : TRUE
hashArray(arr) == CHOOSE r \in {arrayHash(x, 0) : x \in {arr}} : TRUE

\* -------------------------------------------------- nested cells, inputs
\* What the element reads of a DiffNestedCellViewModel that never changes;
\* NoCell is undefined.
Cell(language, metadata, outputs) ==
    [defined |-> TRUE, language |-> language, metadata |-> metadata, outputs |-> outputs]
NoCell == [defined |-> FALSE, language |-> Undefined, metadata |-> <<>>, outputs |-> <<>>]

MetadataKeys == {"executionOrder", "runStartTime"}
Languages == {"py", "js"}
Values == 0..MaxValue

\* The metadata objects: the properties in insertion order, no key twice.
MetadataObjects ==
    {<<>>}
    \cup {<<NumberEntry(k, v)>> : k \in MetadataKeys, v \in Values}
    \cup {<<NumberEntry(k1, v1), NumberEntry(k2, v2)>> :
            <<k1, k2>> \in {p \in MetadataKeys \X MetadataKeys : p[1] # p[2]},
            <<v1, v2>> \in Values \X Values}

RECURSIVE SeqsUpTo(_, _)
SeqsUpTo(S, n) ==
    IF n = 0 THEN {<<>>}
    ELSE LET shorter == SeqsUpTo(S, n - 1)
         IN  shorter \cup {Append(q, x) : q \in shorter, x \in S}

\* An output far from the others: 31 * (x - 1) + LargeOutput is
\* 31 * x + (x - 1) for x = MaxOutput, so the last two steps of arrayHash
\* give <<x - 1, LargeOutput>> and <<x, x - 1>> the same hash.
LargeOutput == MaxOutput + 30

\* The output lists: the short lists of small outputs, and the lists of a
\* small output followed by the large one.
OutputLists ==
    SeqsUpTo(1..MaxOutput, MaxOutputs) \cup {<<x, LargeOutput>> : x \in 1..MaxOutput}

\* ------------------------------------------------------------- the state
VARIABLES
    documentTextModel,    \* [transientOptions: [transientOutputs, transientMetadata]]
    type,                 \* 'unchanged' | 'insert' | 'delete' | 'modified'
    original,             \* the original nested cell, or NoCell
    modified,             \* the modified nested cell, or NoCell
    outputHeights,        \* getOutputTotalHeight() of original and of modified
    layoutInfo,           \* _layoutInfo
    metadataFoldingState,
    outputFoldingState,
    renderOutput,         \* _renderOutput
    events,               \* the events fired by the last operation, in order
    lastOp,               \* the last operation and its arguments
    pre,                  \* the element's fields before the last operation
    lastRaw,              \* the last value written to rawOutputHeight
    rawWrittenWhile,      \* the outputFoldingState at that write, when tracked
    result,               \* what the last query returned
    listener,             \* what the registered layout listener does
    calls,                \* the calls the last operation made on the nested cells
    written               \* the last value written to each sub-measurement

vars == <<documentTextModel, type, original, modified, outputHeights, layoutInfo,
          metadataFoldingState, outputFoldingState, renderOutput,
          events, lastOp, pre, lastRaw, rawWrittenWhile, result, listener,
          calls, written>>

\* The fields of layoutInfo that have a setter on the element.
SubMeasurements == {"rawOutputHeight", "outputStatusHeight", "editorHeight",
                    "editorMargin", "metadataHeight"}

\* The keys of IDiffElementLayoutInfo.
LayoutFields == {"width", "editorHeight", "editorMargin", "metadataHeight",
                 "metadataStatusHeight", "rawOutputHeight", "outputTotalHeight",
                 "outputStatusHeight", "bodyMargin", "totalHeight"}

\* SideBySideDiffElementViewModel has type 'unchanged' or 'modified',
\* SingleSideDiffElementViewModel 'insert' or 'delete'.
IsSideBySide == type \in {"unchanged", "modified"}

\* What a call returns when it returns nothing.
NoResult == [query |-> "none", value |-> FALSE, thrown |-> FALSE]

\* The fields of the element that its methods read and write; log collects
\* the events fired while a method runs, calls the calls made on the nested
\* cells, and returned is what the method returns or throws.
This == [layoutInfo |-> layoutInfo, renderOutput |-> renderOutput,
         metadataFoldingState |-> metadataFoldingState,
         outputFoldingState |-> outputFoldingState,
         original |-> original, modified |-> modified,
         outputHeights |-> outputHeights, log |-> <<>>,
         calls |-> <<>>, returned |-> NoResult]

\* ------------------------------------------------- metadata and outputs
getFormatedMetadataJSON(textModel, metadata, language) ==
    LET transientMetadata == textModel.transientOptions.transientMetadata
        filteredMetadata == SelectSeq(metadata, LAMBDA e : e.key \notin transientMetadata)
        content == JSONStringify(
            (IF language = Undefined THEN <<>> ELSE <<StringEntry("language", language)>>)
            \o filteredMetadata)
    IN  format(content)

SideBySide_checkIfOutputsModified(this) ==
    /\ ~documentTextModel.transientOptions.transientOutputs
    /\ hashArray(this.original.outputs) # hashArray(this.modified.outputs)

SideBySide_checkMetadataIfModified(this) ==
    hashString(getFormatedMetadataJSON(documentTextModel, this.original.metadata,
                                       this.original.language))
    # hashString(getFormatedMetadataJSON(documentTextModel, this.modified.metadata,
                                         this.modified.language))

SideBySide_isOutputEmpty(this) ==
    IF documentTextModel.transientOptions.transientOutputs THEN TRUE
    ELSE IF SideBySide_checkIfOutputsModified(this) THEN FALSE
    ELSE Len(this.original.outputs) = 0

\* Mutant: only the original cell's outputs are measured.
SideBySide_getRichOutputTotalHeight_originalOnly(this) == this.outputHeights.original

SideBySide_getRichOutputTotalHeight(this) ==
    IF this.outputHeights.original >= this.outputHeights.modified
    THEN this.outputHeights.original
    ELSE this.outputHeights.modified

\* get cellViewModel, as the side it returns.
cellViewModel == IF type = "insert" THEN "modified" ELSE "original"

SingleSide_checkIfOutputsModified(this) == FALSE

SingleSide_checkMetadataIfModified(this) == FALSE

SingleSide_isOutputEmpty(this) ==
    IF documentTextModel.transientOptions.transientOutputs THEN TRUE
    ELSE Len(IF this.original.defined THEN this.original.outputs
             ELSE IF this.modified.defined THEN this.modified.outputs
             ELSE <<>>) = 0

SingleSide_getRichOutputTotalHeight(this) ==
    IF this[cellViewModel].defined THEN this.outputHeights[cellViewModel] ELSE 0

\* The abstract methods, dispatched on the element's class.
checkIfOutputsModified(this) ==
    IF IsSideBySide THEN SideBySide_checkIfOutputsModified(this)
    ELSE SingleSide_checkIfOutputsModified(this)

checkMetadataIfModified(this) ==
    IF IsSideBySide THEN SideBySide_checkMetadataIfModified(this)
    ELSE SingleSide_checkMetadataIfModified(this)

isOutputEmpty(this) ==
    IF IsSideBySide THEN SideBySide_isOutputEmpty(this) ELSE SingleSide_isOutputEmpty(this)

getRichOutputTotalHeight(this) ==
    IF IsSideBySide THEN SideBySide_getRichOutputTotalHeight(this)
    ELSE SingleSide_getRichOutputTotalHeight(this)

\* ------------------------------------------------------------ the layout
\* An ILayoutInfoDelta is a function from the keys it sets to their values.
Has(delta, key) == key \in DOMAIN delta
\* Mutant: a key the delta does not set falls back on 0, not on the old layout.
Pick_withoutFallback(delta, key, old) == IF Has(delta, key) THEN delta[key] ELSE 0

Pick(delta, key, old) == IF Has(delta, key) THEN delta[key] ELSE old

\* Mutant: a raw output height is added to the output height shown so far.
getOutputTotalHeight_accumulating(this, rawOutputHeight) ==
    IF this.outputFoldingState = Collapsed THEN 0
    ELSE IF this.renderOutput
         THEN IF isOutputEmpty(this) THEN EmptyOutputHeight
              ELSE getRichOutputTotalHeight(this)
         ELSE this.layoutInfo.outputTotalHeight + rawOutputHeight

getOutputTotalHeight(this, rawOutputHeight) ==
    IF this.outputFoldingState = Collapsed THEN 0
    ELSE IF this.renderOutput
         THEN IF isOutputEmpty(this) THEN EmptyOutputHeight
              ELSE getRichOutputTotalHeight(this)
         ELSE rawOutputHeight

\* Mutant: every update recomputes the output height.
RecomputesOutput_always(delta) == TRUE

\* delta.recomputeOutput || delta.rawOutputHeight !== undefined
RecomputesOutput(delta) ==
    (Has(delta, "recomputeOutput") /\ delta["recomputeOutput"]) \/ Has(delta, "rawOutputHeight")

\* Mutant: the output status bar is left out of the sum.
TotalHeight_withoutOutputStatus(editorHeight, editorMargin, metadataHeight, metadataStatusHeight, outputHeight, outputStatusHeight, bodyMargin) ==
    editorHeight + editorMargin + metadataHeight + metadataStatusHeight
    + outputHeight + bodyMargin

\* totalHeight of _layout.
TotalHeight(editorHeight, editorMargin, metadataHeight, metadataStatusHeight, outputHeight, outputStatusHeight, bodyMargin) ==
    editorHeight + editorMargin + metadataHeight + metadataStatusHeight
    + outputHeight + outputStatusHeight + bodyMargin

\* newLayout of _layout.
NewLayout(this, delta) ==
    LET old == this.layoutInfo
        width == Pick(delta, "width", old.width)
        editorHeight == Pick(delta, "editorHeight", old.editorHeight)
        editorMargin == Pick(delta, "editorMargin", old.editorMargin)
        metadataHeight == Pick(delta, "metadataHeight", old.metadataHeight)
        metadataStatusHeight == Pick(delta, "metadataStatusHeight", old.metadataStatusHeight)
        rawOutputHeight == Pick(delta, "rawOutputHeight", old.rawOutputHeight)
        outputStatusHeight == Pick(delta, "outputStatusHeight", old.outputStatusHeight)
        bodyMargin == Pick(delta, "bodyMargin", old.bodyMargin)
        outputHeight ==
            IF RecomputesOutput(delta)
            THEN getOutputTotalHeight(this, rawOutputHeight)
            ELSE old.outputTotalHeight
        totalHeight == TotalHeight(editorHeight, editorMargin, metadataHeight,
                                   metadataStatusHeight, outputHeight, outputStatusHeight,
                                   bodyMargin)
    IN  [width |-> width,
         editorHeight |-> editorHeight,
         editorMargin |-> editorMargin,
         metadataHeight |-> metadataHeight,
         metadataStatusHeight |-> metadataStatusHeight,
         outputTotalHeight |-> outputHeight,
         outputStatusHeight |-> outputStatusHeight,
         bodyMargin |-> bodyMargin,
         rawOutputHeight |-> rawOutputHeight,
         totalHeight |-> totalHeight]

\* Mutant: totalHeight is flagged on every update.
ChangeEvent_totalHeightAlways(newLayout, old) ==
    {f \in {"width", "editorHeight", "editorMargin", "metadataHeight",
            "metadataStatusHeight", "outputTotalHeight", "outputStatusHeight",
            "bodyMargin"} : newLayout[f] # old[f]} \cup {"totalHeight"}

\* changeEvent of _layout: the flags set to true.
ChangeEvent(newLayout, old) ==
    {f \in {"width", "editorHeight", "editorMargin", "metadataHeight",
            "metadataStatusHeight", "outputTotalHeight", "outputStatusHeight",
            "bodyMargin", "totalHeight"} : newLayout[f] # old[f]}

\* An event as a listener receives it: the emitter, the flags of a layout
\* change or the renderOutput of a state change, and the layoutInfo the
\* listener reads from the element while it runs.
LayoutEvent(flags, seen) ==
    [emitter |-> "layout", flags |-> flags, renderOutput |-> FALSE, seen |-> seen]
StateEvent(value, seen) ==
    [emitter |-> "state", flags |-> {}, renderOutput |-> value, seen |-> seen]

\* What a layout listener does when it is called: the setter calls it makes
\* from inside the callback, as the deltas they pass to _layout. A passive
\* listener only reads the element; a measuring listener may write a
\* measured height back through a setter before it returns.
ReentrantDeltas == {("rawOutputHeight" :> MaxHeight)}
Reactions == IF listener = "measuring" THEN {<<>>} \cup {<<d>> : d \in ReentrantDeltas}
             ELSE {<<>>}

RECURSIVE _layout(_, _, _)
RECURSIVE _fireLayoutChangeEvent(_, _, _)

\* _layoutInfoEmitter.fire(state): the listener runs inside the call, reads
\* the element's layoutInfo, and makes its own calls (reaction) before fire
\* returns.
_fireLayoutChangeEvent(this, state, reaction) ==
    LET fired == [this EXCEPT !.log = Append(@, LayoutEvent(state, this.layoutInfo))]
    IN  IF reaction = <<>> THEN fired
        ELSE _layout(fired, Head(reaction), Tail(reaction))

\* Mutant: the event is fired before _layoutInfo is replaced.
_layout_fireBeforeReplace(this, delta, reaction) ==
    LET newLayout == NewLayout(this, delta)
        changeEvent == ChangeEvent(newLayout, this.layoutInfo)
        fired == _fireLayoutChangeEvent(this, changeEvent, reaction)
    IN  [fired EXCEPT !.layoutInfo = newLayout]

_layout(this, delta, reaction) ==
    LET newLayout == NewLayout(this, delta)
        changeEvent == ChangeEvent(newLayout, this.layoutInfo)
    IN  _fireLayoutChangeEvent([this EXCEPT !.layoutInfo = newLayout], changeEvent, reaction)

\* Mutant: the layout is recomputed before the new value is stored.
setRenderOutput_layoutBeforeStore(this, value, reaction) ==
    LET laidOut == _layout(this, ("recomputeOutput" :> TRUE), reaction)
        stored == [laidOut EXCEPT !.renderOutput = value]
    IN  [stored EXCEPT !.log = Append(@, StateEvent(stored.renderOutput, stored.layoutInfo))]

\* set renderOutput(value)
setRenderOutput(this, value, reaction) ==
    LET stored == [this EXCEPT !.renderOutput = value]
        laidOut == _layout(stored, ("recomputeOutput" :> TRUE), reaction)
    IN  [laidOut EXCEPT !.log = Append(@, StateEvent(laidOut.renderOutput, laidOut.layoutInfo))]

\* Mutant: the listener also brings the output height up to date.
onDidChangeLayout_recomputing(this, reaction) ==
    LET newLayout == NewLayout(this, ("recomputeOutput" :> TRUE))
    IN  _fireLayoutChangeEvent([this EXCEPT !.layoutInfo = newLayout], {"outerWidth"}, reaction)

\* The listener of editorEventDispatcher.onDidChangeLayout: it fires on
\* _layoutInfoEmitter, so the layout listeners run, and may write, inside it.
onDidChangeLayout(this, reaction) == _fireLayoutChangeEvent(this, {"outerWidth"}, reaction)

\* ---------------------------------------------- calls on the nested cells
\* enum DiffSide
DiffSide == {"Original", "Modified"}

\* A call the element makes on a nested cell.
CellCall(cell, method, args) == [cell |-> cell, method |-> method, args |-> args]

\* What a nested cell does when its updateOutputHeight is called: it keeps
\* its layout, or its outputs now take `total` in all and it raises
\* onDidChangeOutputLayout before the call returns.
CellKeepsLayout == [raises |-> FALSE, total |-> 0]
CellReactions == {CellKeepsLayout} \cup {[raises |-> TRUE, total |-> t] : t \in Heights}

\* cell.updateOutputHeight(index, height), with the element's listener of
\* the cell's onDidChangeOutputLayout run when the cell raises the event.
Nested_updateOutputHeight(this, cell, index, height, cellReaction, reaction) ==
    LET called == [this EXCEPT !.calls = Append(@, CellCall(cell, "updateOutputHeight",
                                                            <<index, height>>))]
    IN  IF cellReaction.raises
        THEN _layout([called EXCEPT !.outputHeights[cell] = cellReaction.total],
                     ("recomputeOutput" :> TRUE), reaction)
        ELSE called

\* Mutant: the height is forwarded to the original cell whatever the side.
SideBySide_updateOutputHeight_toOriginal(this, diffSide, index, height, cellReaction, reaction) ==
    Nested_updateOutputHeight(this, "original", index, height, cellReaction, reaction)

SideBySide_updateOutputHeight(this, diffSide, index, height, cellReaction, reaction) ==
    IF diffSide = "Original"
    THEN Nested_updateOutputHeight(this, "original", index, height, cellReaction, reaction)
    ELSE Nested_updateOutputHeight(this, "modified", index, height, cellReaction, reaction)

SingleSide_updateOutputHeight(this, diffSide, index, height, cellReaction, reaction) ==
    IF this[cellViewModel].defined
    THEN Nested_updateOutputHeight(this, cellViewModel, index, height, cellReaction, reaction)
    ELSE this

updateOutputHeight(this, diffSide, index, height, cellReaction, reaction) ==
    IF IsSideBySide
    THEN SideBySide_updateOutputHeight(this, diffSide, index, height, cellReaction, reaction)
    ELSE SingleSide_updateOutputHeight(this, diffSide, index, height, cellReaction, reaction)

\* What a call returns, and the message of the Error it throws.
Returned(query, value) == [query |-> query, value |-> value, thrown |-> FALSE]
Thrown(query, message) == [query |-> query, value |-> message, thrown |-> TRUE]

\* The message of the TypeError of reading `property` of undefined.
TypeErrorOfUndefined(property) ==
    "Cannot read properties of undefined (reading '" \o property \o "')"

\* cell.getOutputOffset(index): the cell answers `offset`.
Nested_getOutputOffset(this, cell, index, offset) ==
    [this EXCEPT !.calls = Append(@, CellCall(cell, "getOutputOffset", <<index>>)),
                 !.returned = Returned("getOutputOffset", offset)]

SideBySide_getOutputOffsetInContainer(this, diffSide, index, offset) ==
    LET asked == IF diffSide = "Original"
                 THEN Nested_getOutputOffset(this, "original", index, offset)
                 ELSE Nested_getOutputOffset(this, "modified", index, offset)
    IN  [asked EXCEPT !.returned = Returned("getOutputOffsetInContainer", asked.returned.value)]

SingleSide_getOutputOffsetInContainer(this, diffSide, index, offset) ==
    LET asked == Nested_getOutputOffset(this, cellViewModel, index, offset)
    IN  IF ~this[cellViewModel].defined
        THEN [this EXCEPT !.returned = Thrown("getOutputOffsetInContainer",
                                              TypeErrorOfUndefined("getOutputOffset"))]
        ELSE [asked EXCEPT !.returned = Returned("getOutputOffsetInContainer",
                                                 asked.returned.value)]

getOutputOffsetInContainer(this, diffSide, index, offset) ==
    IF IsSideBySide THEN SideBySide_getOutputOffsetInContainer(this, diffSide, index, offset)
    ELSE SingleSide_getOutputOffsetInContainer(this, diffSide, index, offset)

\* n / 2 for an even n; bodyMargin is 32 in every layoutInfo the element
\* stores, since no delta carries a bodyMargin.
Half(n) == n \div 2

\* Mutant: the whole body margin is counted above the outputs.
SideBySide_getOutputOffsetInCell_wholeMargin(this, diffSide, index, offset) ==
    LET asked == SideBySide_getOutputOffsetInContainer(this, diffSide, index, offset)
        offsetInOutputsContainer == asked.returned.value
    IN  [asked EXCEPT !.returned = Returned("getOutputOffsetInCell",
            this.layoutInfo.editorHeight
            + this.layoutInfo.editorMargin
            + this.layoutInfo.metadataHeight
            + this.layoutInfo.metadataStatusHeight
            + this.layoutInfo.outputStatusHeight
            + this.layoutInfo.bodyMargin
            + offsetInOutputsContainer)]

SideBySide_getOutputOffsetInCell(this, diffSide, index, offset) ==
    LET asked == SideBySide_getOutputOffsetInContainer(this, diffSide, index, offset)
        offsetInOutputsContainer == asked.returned.value
    IN  [asked EXCEPT !.returned = Returned("getOutputOffsetInCell",
            this.layoutInfo.editorHeight
            + this.layoutInfo.editorMargin
            + this.layoutInfo.metadataHeight
            + this.layoutInfo.metadataStatusHeight
            + this.layoutInfo.outputStatusHeight
            + Half(this.layoutInfo.bodyMargin)
            + offsetInOutputsContainer)]

SingleSide_getOutputOffsetInCell(this, diffSide, index, offset) ==
    LET asked == Nested_getOutputOffset(this, cellViewModel, index, offset)
        offsetInOutputsContainer == asked.returned.value
    IN  IF ~this[cellViewModel].defined
        THEN [this EXCEPT !.returned = Thrown("getOutputOffsetInCell",
                                              TypeErrorOfUndefined("getOutputOffset"))]
        ELSE [asked EXCEPT !.returned = Returned("getOutputOffsetInCell",
            this.layoutInfo.editorHeight
            + this.layoutInfo.editorMargin
            + this.layoutInfo.metadataHeight
            + this.layoutInfo.metadataStatusHeight
            + this.layoutInfo.outputStatusHeight
            + Half(this.layoutInfo.bodyMargin)
            + offsetInOutputsContainer)]

getOutputOffsetInCell(this, diffSide, index, offset) ==
    IF IsSideBySide THEN SideBySide_getOutputOffsetInCell(this, diffSide, index, offset)
    ELSE SingleSide_getOutputOffsetInCell(this, diffSide, index, offset)

\* The getters of the sub-measurements, of layoutInfo and
\* getNestedCellViewModel.
get_rawOutputHeight(this) ==
    [this EXCEPT !.returned = Thrown("get rawOutputHeight",
                                     "Use Cell.layoutInfo.rawOutputHeight")]

get_outputStatusHeight(this) ==
    [this EXCEPT !.returned = Thrown("get outputStatusHeight",
                                     "Use Cell.layoutInfo.outputStatusHeight")]

\* Mutant: the getter hands out the field of layoutInfo.
get_editorHeight_fromLayoutInfo(this) ==
    [this EXCEPT !.returned = Returned("get editorHeight", this.layoutInfo.editorHeight)]

get_editorHeight(this) ==
    [this EXCEPT !.returned = Thrown("get editorHeight",
                                     "Use Cell.layoutInfo.editorHeight")]

get_editorMargin(this) ==
    [this EXCEPT !.returned = Thrown("get editorMargin",
                                     "Use Cell.layoutInfo.editorMargin")]

get_metadataHeight(this) ==
    [this EXCEPT !.returned = Thrown("get metadataHeight",
                                     "Use Cell.layoutInfo.metadataHeight")]

get_layoutInfo(this) ==
    [this EXCEPT !.returned = Returned("get layoutInfo", this.layoutInfo)]

SideBySide_getNestedCellViewModel(this, diffSide) ==
    [this EXCEPT !.returned = Thrown("getNestedCellViewModel",
                                     "Method not implemented.")]

\* The cell is returned as the side it is on.
SingleSide_getNestedCellViewModel(this, diffSide) ==
    [this EXCEPT !.returned = Returned("getNestedCellViewModel",
                                       IF type = "insert" THEN "modified" ELSE "original")]

getNestedCellViewModel(this, diffSide) ==
    IF IsSideBySide THEN SideBySide_getNestedCellViewModel(this, diffSide)
    ELSE SingleSide_getNestedCellViewModel(this, diffSide)

\* ----------------------------------------------------------- construction
TextModel(transientOutputs, transientMetadata) ==
    [transientOptions |-> [transientOutputs |-> transientOutputs,
                           transientMetadata |-> transientMetadata]]

Document(textModel, t, o, m) ==
    [textModel |-> textModel, type |-> t, original |-> o, modified |-> m]

InitialLayoutInfo ==
    [width |-> 0,
     editorHeight |-> 0,
     editorMargin |-> 0,
     metadataHeight |-> 0,
     metadataStatusHeight |-> MetadataStatusHeight0,
     rawOutputHeight |-> 0,
     outputTotalHeight |-> 0,
     outputStatusHeight |-> OutputStatusHeight0,
     bodyMargin |-> BodyMargin0,
     totalHeight |-> TotalHeight0]

NoOp == [name |-> "constructor", delta |-> <<>>, value |-> FALSE, reaction |-> <<>>]

Snapshot == [layoutInfo |-> layoutInfo, renderOutput |-> renderOutput,
             metadataFoldingState |-> metadataFoldingState,
             outputFoldingState |-> outputFoldingState,
             outputHeights |-> outputHeights]

\* DiffElementViewModelBase.constructor: the fields it initialises.
Base_constructor(o, m) ==
    [layoutInfo |-> InitialLayoutInfo, renderOutput |-> FALSE,
     metadataFoldingState |-> Collapsed, outputFoldingState |-> Collapsed,
     original |-> o, modified |-> m,
     outputHeights |-> [original |-> 0, modified |-> 0], log |-> <<>>,
     calls |-> <<>>, returned |-> NoResult]

\* Mutant: the sections start collapsed whatever the checks say.
SideBySide_constructor_withoutChecks(o, m) == Base_constructor(o, m)

\* SideBySideDiffElementViewModel.constructor: both sections collapsed, then
\* each one expanded if its check holds.
SideBySide_constructor(o, m) ==
    LET super == Base_constructor(o, m)
        collapsed == [super EXCEPT !.metadataFoldingState = Collapsed,
                                   !.outputFoldingState = Collapsed]
        metadata == IF SideBySide_checkMetadataIfModified(collapsed)
                    THEN [collapsed EXCEPT !.metadataFoldingState = Expanded]
                    ELSE collapsed
        outputs == IF SideBySide_checkIfOutputsModified(metadata)
                   THEN [metadata EXCEPT !.outputFoldingState = Expanded]
                   ELSE metadata
    IN  IF o.defined /\ m.defined THEN outputs
        ELSE [outputs EXCEPT !.returned = Thrown("constructor", TypeErrorOfUndefined("onDidChangeOutputLayout"))]

\* SingleSideDiffElementViewModel.constructor
SingleSide_constructor(o, m) ==
    LET super == Base_constructor(o, m)
    IN  IF super[cellViewModel].defined THEN super
        ELSE [super EXCEPT !.returned = Thrown("constructor", TypeErrorOfUndefined("onDidChangeOutputLayout"))]

\* new SideBySideDiffElementViewModel(...) or new
\* SingleSideDiffElementViewModel(...), by the document's type.
Construct(d, l, tracked) ==
    /\ listener = l
    /\ rawWrittenWhile = tracked
    /\ documentTextModel = d.textModel
    /\ type = d.type
    /\ original = d.original
    /\ modified = d.modified
    /\ \E this \in {IF d.type \in {"unchanged", "modified"}
                     THEN SideBySide_constructor(d.original, d.modified)
                     ELSE SingleSide_constructor(d.original, d.modified)} :
         /\ ~this.returned.thrown
         /\ outputHeights = this.outputHeights
         /\ layoutInfo = this.layoutInfo
         /\ renderOutput = this.renderOutput
         /\ metadataFoldingState = this.metadataFoldingState
         /\ outputFoldingState = this.outputFoldingState
         /\ events = this.log
    /\ lastOp = NoOp
    /\ pre = [layoutInfo |-> InitialLayoutInfo, renderOutput |-> FALSE,
              metadataFoldingState |-> Collapsed, outputFoldingState |-> Collapsed,
              outputHeights |-> [original |-> 0, modified |-> 0]]
    /\ lastRaw = 0
    /\ result = NoResult
    /\ calls = <<>>
    /\ written = [f \in SubMeasurements |-> InitialLayoutInfo[f]]

\* The documents the layout is explored on: both classes, both single-side
\* types, empty, equal and different outputs, transient outputs or not.
LayoutDocuments ==
    LET m0 == <<NumberEntry("executionOrder", 0)>>
        m1 == <<NumberEntry("executionOrder", 1)>>
    IN  { Document(TextModel(FALSE, {}), "unchanged",
                   Cell("py", m0, <<>>), Cell("py", m0, <<>>)),
          Document(TextModel(FALSE, {}), "modified",
                   Cell("py", m0, <<>>), Cell("py", m1, <<1>>)),
          Document(TextModel(FALSE, {}), "insert", NoCell, Cell("py", m0, <<1>>)),
          Document(TextModel(TRUE, {}), "delete", Cell("py", m0, <<1>>), NoCell) }

Init == \E d \in LayoutDocuments : Construct(d, "passive", "untracked")

\* ------------------------------------------------------------ operations
\* The value of the last write to `field` among the deltas of an
\* operation, if any.
RECURSIVE LastWrite(_, _, _)
LastWrite(deltas, field, none) ==
    IF deltas = <<>> THEN none
    ELSE LET d == deltas[Len(deltas)]
         IN  IF Has(d, field) THEN d[field]
             ELSE LastWrite(SubSeq(deltas, 1, Len(deltas) - 1), field, none)

LastRawWrite(deltas, none) == LastWrite(deltas, "rawOutputHeight", none)

\* The element after a method has run to `after`, having been called as `op`.
Commit(ran, op) ==
    \E after \in {ran} :
    /\ layoutInfo' = after.layoutInfo
    /\ renderOutput' = after.renderOutput
    /\ metadataFoldingState' = after.metadataFoldingState
    /\ outputFoldingState' = after.outputFoldingState
    /\ outputHeights' = after.outputHeights
    /\ events' = after.log
    /\ lastOp' = op
    /\ pre' = Snapshot
    /\ LET w == LastRawWrite(<<op.delta>> \o op.reaction, -1)
       IN  /\ lastRaw' = IF w = -1 THEN lastRaw ELSE w
           /\ rawWrittenWhile' = IF w = -1 \/ rawWrittenWhile = "untracked"
                                 THEN rawWrittenWhile ELSE outputFoldingState
    /\ written' = [f \in SubMeasurements |->
                      LastWrite(<<op.delta>> \o op.reaction, f, written[f])]
    /\ calls' = after.calls
    /\ result' = after.returned
    /\ UNCHANGED <<documentTextModel, type, original, modified, listener>>

Op(name, delta, value, reaction) ==
    [name |-> name, delta |-> delta, value |-> value, reaction |-> reaction]

\* set rawOutputHeight / outputStatusHeight / editorHeight / editorMargin /
\* metadataHeight
Setter(field, height, reaction) ==
    \E this \in {This} :
        Commit(_layout(this, (field :> height), reaction),
               Op("set", (field :> height), FALSE, reaction))

SetRawOutputHeight == \E h \in Heights, r \in Reactions : Setter("rawOutputHeight", h, r)
SetOutputStatusHeight == \E h \in StatusHeights, r \in Reactions : Setter("outputStatusHeight", h, r)
SetEditorHeight == \E h \in Heights, r \in Reactions : Setter("editorHeight", h, r)
SetEditorMargin == \E h \in Heights, r \in Reactions : Setter("editorMargin", h, r)
SetMetadataHeight == \E h \in Heights, r \in Reactions : Setter("metadataHeight", h, r)

SetRenderOutput ==
    \E value \in BOOLEAN, r \in Reactions, this \in {This} :
        Commit(setRenderOutput(this, value, r),
               Op("setRenderOutput", ("recomputeOutput" :> TRUE), value, r))

LayoutChange ==
    \E r \in Reactions, this \in {This} :
        Commit(_layout(this, ("recomputeOutput" :> TRUE), r),
               Op("layoutChange", ("recomputeOutput" :> TRUE), FALSE, r))

\* The view assigns the public folding-state fields.
SetMetadataFoldingState ==
    \E s \in PropertyFoldingState :
        Commit([This EXCEPT !.metadataFoldingState = s],
               Op("setMetadataFoldingState", <<>>, FALSE, <<>>))

SetOutputFoldingState ==
    \E s \in PropertyFoldingState :
        Commit([This EXCEPT !.outputFoldingState = s],
               Op("setOutputFoldingState", <<>>, FALSE, <<>>))

\* A nested cell's outputs now take `height` in all and the cell fires
\* onDidChangeOutputLayout; the element listens to both cells when
\* side-by-side and to cellViewModel when single-side.
OutputLayoutChanged(side) ==
    \E height \in Heights, r \in Reactions :
        /\ IF IsSideBySide THEN TRUE ELSE side = cellViewModel
        /\ \E this \in {[This EXCEPT !.outputHeights[side] = height]} :
             /\ this[side].defined
             /\ Commit(_layout(this, ("recomputeOutput" :> TRUE), r),
                       Op("onDidChangeOutputLayout", ("recomputeOutput" :> TRUE), FALSE, r))

OriginalOutputLayoutChanged == OutputLayoutChanged("original")
ModifiedOutputLayoutChanged == OutputLayoutChanged("modified")

\* The editor event dispatcher signals a layout change of the whole editor.
EditorLayoutChanged ==
    \E r \in Reactions, this \in {This} :
        Commit(onDidChangeLayout(this, r), Op("onDidChangeLayout", <<>>, FALSE, r))

Next ==
    \/ SetRawOutputHeight
    \/ SetOutputStatusHeight
    \/ SetEditorHeight
    \/ SetEditorMargin
    \/ SetMetadataHeight
    \/ SetRenderOutput
    \/ LayoutChange
    \/ SetMetadataFoldingState
    \/ SetOutputFoldingState
    \/ OriginalOutputLayoutChanged
    \/ ModifiedOutputLayoutChanged
    \/ EditorLayoutChanged

Spec == Init /\ [][Next]_vars

\* The same element with a measuring listener registered on onDidLayoutChange.
InitMeasuring ==
    \E d \in {x \in LayoutDocuments : x.type \in {"insert"}} :
        Construct(d, "measuring", "untracked")

SpecMeasuring == InitMeasuring /\ [][Next]_vars

\* The same element, with the folding state at each write to rawOutputHeight
\* kept on record.
InitTracking ==
    \E d \in {x \in LayoutDocuments : x.type \in {"modified", "insert"}} :
        Construct(d, "passive", "none")

SpecTracking == InitTracking /\ [][Next]_vars

\* --------------------------------------------- the calls of the view
\* The output index and height the view passes.
OutputUpdates == {<<0, MaxHeight>>}

UpdateOutputHeight ==
    \E diffSide \in DiffSide, u \in OutputUpdates, c \in CellReactions,
       r \in Reactions, this \in {This} :
        Commit(updateOutputHeight(this, diffSide, u[1], u[2], c, r),
               Op("updateOutputHeight",
                  IF c.raises THEN ("recomputeOutput" :> TRUE) ELSE <<>>,
                  [diffSide |-> diffSide, index |-> u[1], height |-> u[2], cell |-> c],
                  IF c.raises THEN r ELSE <<>>))

NextCalls ==
    \/ SetRawOutputHeight
    \/ SetOutputStatusHeight
    \/ SetEditorHeight
    \/ SetEditorMargin
    \/ SetMetadataHeight
    \/ SetRenderOutput
    \/ LayoutChange
    \/ SetMetadataFoldingState
    \/ SetOutputFoldingState
    \/ OriginalOutputLayoutChanged
    \/ ModifiedOutputLayoutChanged
    \/ EditorLayoutChanged
    \/ UpdateOutputHeight

\* The element with the calls the view makes on it besides the layout
\* updates; the calls added here leave the element's fields alone or change
\* them as a nested cell's output-layout event does.
InitCalls ==
    \E d \in {x \in LayoutDocuments : x.type \in {"modified", "insert", "delete"}} :
        Construct(d, "passive", "untracked")

SpecCalls == InitCalls /\ [][NextCalls]_vars

\* ------------------------------------------------ the reads of the view
\* The offsets a nested cell answers for an output.
Offsets == {0, MaxHeight}

GetOutputOffsetInCell ==
    \E diffSide \in DiffSide, offset \in Offsets, this \in {This} :
        Commit(getOutputOffsetInCell(this, diffSide, 0, offset),
               Op("getOutputOffsetInCell", <<>>,
                  [diffSide |-> diffSide, index |-> 0, offset |-> offset], <<>>))

Read(name, ran) == Commit(ran, Op(name, <<>>, FALSE, <<>>))

GetRawOutputHeight == \E this \in {This} : Read("get rawOutputHeight", get_rawOutputHeight(this))
GetOutputStatusHeight == \E this \in {This} : Read("get outputStatusHeight", get_outputStatusHeight(this))
GetEditorHeight == \E this \in {This} : Read("get editorHeight", get_editorHeight(this))
GetEditorMargin == \E this \in {This} : Read("get editorMargin", get_editorMargin(this))
GetMetadataHeight == \E this \in {This} : Read("get metadataHeight", get_metadataHeight(this))
GetLayoutInfo == \E this \in {This} : Read("get layoutInfo", get_layoutInfo(this))

GetNestedCellViewModel ==
    \E diffSide \in DiffSide, this \in {This} :
        Commit(getNestedCellViewModel(this, diffSide),
               Op("getNestedCellViewModel", <<>>, [diffSide |-> diffSide], <<>>))

NextReads ==
    \/ SetRawOutputHeight
    \/ SetOutputStatusHeight
    \/ SetEditorHeight
    \/ SetEditorMargin
    \/ SetMetadataHeight
    \/ SetRenderOutput
    \/ LayoutChange
    \/ SetMetadataFoldingState
    \/ SetOutputFoldingState
    \/ OriginalOutputLayoutChanged
    \/ ModifiedOutputLayoutChanged
    \/ EditorLayoutChanged
    \/ GetOutputOffsetInCell
    \/ GetRawOutputHeight
    \/ GetOutputStatusHeight
    \/ GetEditorHeight
    \/ GetEditorMargin
    \/ GetMetadataHeight
    \/ GetLayoutInfo
    \/ GetNestedCellViewModel

InitReads ==
    \E d \in {x \in LayoutDocuments : x.type \in {"modified", "insert"}} :
        Construct(d, "passive", "untracked")

\* The element with the reads the view makes between the layout updates.
SpecReads == InitReads /\ [][NextReads]_vars

\* -------------------------------------------------------------- queries
\* The documents the queries are explored on: side-by-side elements over
\* every pair of metadata objects, languages and transient keys, and over
\* every pair of output lists; single-side elements over every output list.
QueryDocuments ==
    { Document(TextModel(FALSE, tm), "modified", Cell(lo, mo, <<>>), Cell(lm, mm, <<>>)) :
        tm \in SUBSET MetadataKeys, lo \in Languages, lm \in Languages,
        mo \in MetadataObjects, mm \in MetadataObjects }
    \cup
    { Document(TextModel(to, {}), "modified", Cell("py", <<>>, oo), Cell("py", <<>>, om)) :
        to \in BOOLEAN, oo \in OutputLists, om \in OutputLists }
    \cup
    { Document(TextModel(to, {}), "insert", NoCell,
               Cell("py", <<NumberEntry("executionOrder", 1)>>, o)) :
        to \in BOOLEAN, o \in OutputLists }
    \cup
    { Document(TextModel(to, {}), "delete",
               Cell("py", <<NumberEntry("executionOrder", 1)>>, o), NoCell) :
        to \in BOOLEAN, o \in OutputLists }

InitQuery == \E d \in QueryDocuments : Construct(d, "passive", "untracked")

Query(name, value) ==
    /\ result' = [query |-> name, value |-> value, thrown |-> FALSE]
    /\ UNCHANGED <<documentTextModel, type, original, modified, outputHeights, layoutInfo,
                   metadataFoldingState, outputFoldingState, renderOutput,
                   events, lastOp, pre, lastRaw, rawWrittenWhile, listener,
                   calls, written>>

CallCheckIfOutputsModified == Query("checkIfOutputsModified", checkIfOutputsModified(This))
CallCheckMetadataIfModified == Query("checkMetadataIfModified", checkMetadataIfModified(This))
CallIsOutputEmpty == Query("isOutputEmpty", isOutputEmpty(This))

NextQuery ==
    \/ CallCheckIfOutputsModified
    \/ CallCheckMetadataIfModified
    \/ CallIsOutputEmpty

SpecQuery == InitQuery /\ [][NextQuery]_vars

\* ============================================================ properties
\* The operations that run _layout, and the deltas of the layout updates
\* of the last operation, in the order in which they ran.
LayoutOps == {"set", "setRenderOutput", "layoutChange", "onDidChangeOutputLayout"}
Deltas == (IF lastOp.name \in LayoutOps THEN <<lastOp.delta>> ELSE <<>>) \o lastOp.reaction
LayoutEvents == SelectSeq(events, LAMBDA e : e.emitter = "layout" /\ e.flags # {"outerWidth"})
\* layoutInfo before the i-th layout update of the last operation.
Before(i) == IF i = 1 THEN pre.layoutInfo ELSE LayoutEvents[i - 1].seen

Max(a, b) == IF a >= b THEN a ELSE b

\* The output height the element shows when renderOutput is ro.
ExpectedOutputHeight(ro) ==
    IF outputFoldingState = Collapsed THEN 0
    ELSE IF ~ro THEN layoutInfo.rawOutputHeight
    ELSE IF isOutputEmpty(This) THEN 24
    ELSE IF IsSideBySide THEN Max(outputHeights.original, outputHeights.modified)
    ELSE outputHeights[cellViewModel]

\* C1: in every reachable state totalHeight is the sum of editorHeight,
\* editorMargin, metadataHeight, metadataStatusHeight, outputTotalHeight,
\* outputStatusHeight and bodyMargin of layoutInfo, which is 82 right after
\* construction.
C1_TotalHeightIsSum ==
    /\ layoutInfo.totalHeight =
         layoutInfo.editorHeight + layoutInfo.editorMargin + layoutInfo.metadataHeight
         + layoutInfo.metadataStatusHeight + layoutInfo.outputTotalHeight
         + layoutInfo.outputStatusHeight + layoutInfo.bodyMargin
    /\ lastOp.name = "constructor" => layoutInfo.totalHeight = 82

C1_Witness ==
    /\ lastOp.name = "layoutChange"
    /\ layoutInfo.outputTotalHeight > 0
    /\ layoutInfo.editorHeight > 0
    /\ layoutInfo.outputStatusHeight = 0
    /\ layoutInfo.totalHeight # 82

\* C2: a flag is set in the layout-change event of a layout update only if
\* that field of layoutInfo differs before and after the update, so an
\* update that changes no field fires an event with no flag.
C2_EventIsMinimal ==
    lastOp.name \in LayoutOps =>
        \A i \in 1..Len(LayoutEvents) :
            \A f \in LayoutEvents[i].flags :
                f \in LayoutFields /\ Before(i)[f] # LayoutEvents[i].seen[f]

C2_Witness ==
    /\ lastOp.name = "set"
    /\ layoutInfo = pre.layoutInfo
    /\ Len(events) = 1
    /\ events[1].flags = {}

\* C3: every field of layoutInfo that differs before and after a layout
\* update, rawOutputHeight included, is flagged in the event of the update.
C3_EventIsComplete ==
    lastOp.name \in LayoutOps =>
        \A i \in 1..Len(LayoutEvents) :
            \A f \in LayoutFields :
                Before(i)[f] # LayoutEvents[i].seen[f] => f \in LayoutEvents[i].flags

\* C4: setting editorHeight, editorMargin, metadataHeight or
\* outputStatusHeight to v makes that field v, recomputes totalHeight and
\* leaves every other field of layoutInfo, outputTotalHeight included, the
\* folding states and renderOutput as they were.
C4_SetterFrame ==
    (/\ lastOp.name = "set"
     /\ lastOp.reaction = <<>>
     /\ ~Has(lastOp.delta, "rawOutputHeight")) =>
        LET f == CHOOSE k \in DOMAIN lastOp.delta : TRUE
        IN  /\ f \in {"editorHeight", "editorMargin", "metadataHeight", "outputStatusHeight"}
            /\ layoutInfo[f] = lastOp.delta[f]
            /\ layoutInfo.totalHeight =
                 pre.layoutInfo.totalHeight - pre.layoutInfo[f] + lastOp.delta[f]
            /\ \A g \in LayoutFields \ {f, "totalHeight"} : layoutInfo[g] = pre.layoutInfo[g]
            /\ metadataFoldingState = pre.metadataFoldingState
            /\ outputFoldingState = pre.outputFoldingState
            /\ renderOutput = pre.renderOutput
            /\ outputHeights = pre.outputHeights

\* A setter has changed its field while outputTotalHeight was out of date.
C4_Witness ==
    /\ lastOp.name = "set"
    /\ Has(lastOp.delta, "editorMargin")
    /\ layoutInfo.editorMargin # pre.layoutInfo.editorMargin
    /\ outputFoldingState = Expanded
    /\ ~renderOutput
    /\ layoutInfo.rawOutputHeight # layoutInfo.outputTotalHeight

\* The entries of a metadata object that are not transient, as a set.
NonTransient(metadata) ==
    {<<metadata[i].key, metadata[i].value>> :
        i \in {j \in 1..Len(metadata) :
                 metadata[j].key \notin documentTextModel.transientOptions.transientMetadata}}

\* C5: on a side-by-side element checkMetadataIfModified() is false when
\* the languages are equal and the non-transient metadata agree key by key,
\* and true otherwise.
C5_MetadataComparedByContent ==
    (result.query = "checkMetadataIfModified" /\ IsSideBySide) =>
        (result.value <=>
            ~(/\ original.language = modified.language
              /\ NonTransient(original.metadata) = NonTransient(modified.metadata)))

\* C6: on a side-by-side element checkIfOutputsModified() is true exactly
\* when transientOutputs is false and the output lists differ; with
\* transientOutputs isOutputEmpty() is true, without it isOutputEmpty() is
\* true only if both output lists are empty; on a single-side element
\* checkIfOutputsModified() and checkMetadataIfModified() are false.
C6_OutputChecks ==
    LET transientOutputs == documentTextModel.transientOptions.transientOutputs
    IN  /\ (result.query = "checkIfOutputsModified" /\ IsSideBySide) =>
             (result.value <=> (~transientOutputs /\ original.outputs # modified.outputs))
        /\ (result.query = "isOutputEmpty" /\ IsSideBySide /\ transientOutputs) =>
             result.value
        /\ (result.query = "isOutputEmpty" /\ IsSideBySide /\ ~transientOutputs
            /\ result.value) =>
             (original.outputs = <<>> /\ modified.outputs = <<>>)
        /\ (result.query \in {"checkIfOutputsModified", "checkMetadataIfModified"}
            /\ ~IsSideBySide) =>
             ~result.value

\* C7: every layout update fires exactly one layout-change event, after
\* layoutInfo has been replaced: the layoutInfo a listener reads holds the
\* values the update wrote and differs from the layout before the update in
\* every flagged field, also for the update a listener makes from inside
\* the callback of a layout-change event, the outerWidth event included.
C7_EventAfterReplace ==
    (\/ lastOp.name \in LayoutOps
     \/ lastOp.name = "onDidChangeLayout" /\ lastOp.reaction # <<>>) =>
        /\ Len(LayoutEvents) = Len(Deltas)
        /\ \A i \in 1..Len(LayoutEvents) :
             /\ \A k \in DOMAIN Deltas[i] \cap LayoutFields :
                  LayoutEvents[i].seen[k] = Deltas[i][k]
             /\ \A f \in LayoutEvents[i].flags :
                  LayoutEvents[i].seen[f] # Before(i)[f]
        /\ layoutInfo = LayoutEvents[Len(LayoutEvents)].seen

\* A listener has written a height back from inside the callback, and both
\* updates changed the layout.
C7_Witness ==
    /\ lastOp.name = "set"
    /\ lastOp.reaction # <<>>
    /\ Len(LayoutEvents) = 2
    /\ "editorHeight" \in LayoutEvents[1].flags
    /\ "outputTotalHeight" \in LayoutEvents[2].flags

\* C8: right after an update that recomputes the output, outputTotalHeight
\* is 0 if the output section is collapsed, else rawOutputHeight if
\* renderOutput is false, else 24 if the output is empty, else the larger
\* nested output height (side-by-side) or the cell's (single-side).
C8_OutputHeightAfterRecompute ==
    (\/ lastOp.name \in {"layoutChange", "setRenderOutput", "onDidChangeOutputLayout"}
     \/ lastOp.name = "set" /\ Has(lastOp.delta, "rawOutputHeight")) =>
        layoutInfo.outputTotalHeight = ExpectedOutputHeight(renderOutput)

C8_Witness ==
    /\ lastOp.name = "onDidChangeOutputLayout"
    /\ IsSideBySide
    /\ outputFoldingState = Expanded
    /\ renderOutput
    /\ ~isOutputEmpty(This)
    /\ outputHeights.modified > outputHeights.original
    /\ layoutInfo.outputTotalHeight = outputHeights.modified

\* C9: a rawOutputHeight set while the output section is collapsed is
\* stored and gives outputTotalHeight 0; a layoutChange() with the section
\* expanded and renderOutput false makes outputTotalHeight the last
\* rawOutputHeight set, and totalHeight grows by the difference.
C9_RawHeightKept ==
    /\ (/\ lastOp.name = "set"
        /\ Has(lastOp.delta, "rawOutputHeight")
        /\ outputFoldingState = Collapsed) =>
           /\ layoutInfo.rawOutputHeight = lastOp.delta["rawOutputHeight"]
           /\ layoutInfo.outputTotalHeight = 0
    /\ (/\ lastOp.name = "layoutChange"
        /\ lastOp.reaction = <<>>
        /\ outputFoldingState = Expanded
        /\ ~renderOutput) =>
           /\ layoutInfo.outputTotalHeight = lastRaw
           /\ layoutInfo.totalHeight =
                pre.layoutInfo.totalHeight - pre.layoutInfo.outputTotalHeight + lastRaw

\* The height was set while collapsed, the section was expanded later, and
\* layoutChange() has grown the row by it.
C9_Witness ==
    /\ lastOp.name = "layoutChange"
    /\ rawWrittenWhile = Collapsed
    /\ lastRaw > 0
    /\ outputFoldingState = Expanded
    /\ ~renderOutput
    /\ pre.layoutInfo.outputTotalHeight = 0
    /\ layoutInfo.outputTotalHeight = lastRaw
    /\ layoutInfo.totalHeight = pre.layoutInfo.totalHeight + lastRaw

\* C10: setting renderOutput to v stores v, lays out with the new v and
\* fires the layout-change event, then fires the state-change event
\* carrying v; each is fired once, also when v is the old value, and the
\* getter returns v afterwards.
C10_RenderOutputOrder ==
    (lastOp.name = "setRenderOutput" /\ lastOp.reaction = <<>>) =>
        /\ renderOutput = lastOp.value
        /\ Len(events) = 2
        /\ events[1].emitter = "layout"
        /\ events[1].seen.outputTotalHeight = ExpectedOutputHeight(lastOp.value)
        /\ events[2].emitter = "state"
        /\ events[2].renderOutput = lastOp.value
        /\ events[2].seen = events[1].seen

C10_Witness ==
    /\ lastOp.name = "setRenderOutput"
    /\ lastOp.value = pre.renderOutput
    /\ lastOp.value
    /\ outputFoldingState = Expanded
    /\ Len(events) = 2
    /\ layoutInfo.outputTotalHeight # layoutInfo.rawOutputHeight

\* C11: right after construction a side-by-side element has its metadata
\* section expanded exactly when checkMetadataIfModified() returns true and
\* its output section expanded exactly when checkIfOutputsModified() returns
\* true; a single-side element has both sections collapsed; in both cases
\* layoutInfo has outputTotalHeight 0 and totalHeight 82.
C11_FoldingAtConstruction ==
    lastOp.name = "constructor" =>
        /\ (IsSideBySide /\ result.query = "checkMetadataIfModified") =>
             (metadataFoldingState = Expanded <=> result.value)
        /\ (IsSideBySide /\ result.query = "checkIfOutputsModified") =>
             (outputFoldingState = Expanded <=> result.value)
        /\ metadataFoldingState \in PropertyFoldingState
        /\ outputFoldingState \in PropertyFoldingState
        /\ ~IsSideBySide =>
             (metadataFoldingState = Collapsed /\ outputFoldingState = Collapsed)
        /\ layoutInfo.outputTotalHeight = 0
        /\ layoutInfo.totalHeight = 82
        /\ layoutInfo = InitialLayoutInfo

\* The outputs differ, so the output section starts expanded, and the
\* layout still shows no output.
C11_Witness ==
    /\ lastOp.name = "constructor"
    /\ IsSideBySide
    /\ result.query = "checkIfOutputsModified"
    /\ result.value
    /\ outputFoldingState = Expanded
    /\ metadataFoldingState = Collapsed
    /\ layoutInfo.outputTotalHeight = 0

\* C12: when the editor event dispatcher signals a layout change, the
\* element fires one layout-change event whose only flag is outerWidth and
\* no state-change event, and leaves the folding states and renderOutput as
\* they were; layoutInfo (every field) stays as it was unless a listener
\* calls a setter from inside the callback, and every further event is the
\* event of such a call.
C12_OuterWidthOnly ==
    lastOp.name = "onDidChangeLayout" =>
        /\ Len(events) = 1 + Len(lastOp.reaction)
        /\ events[1].emitter = "layout"
        /\ events[1].flags = {"outerWidth"}
        /\ events[1].seen = pre.layoutInfo
        /\ \A i \in 2..Len(events) :
             events[i].emitter = "layout" /\ "outerWidth" \notin events[i].flags
        /\ metadataFoldingState = pre.metadataFoldingState
        /\ outputFoldingState = pre.outputFoldingState
        /\ renderOutput = pre.renderOutput
        /\ outputHeights = pre.outputHeights
        /\ lastOp.reaction = <<>> =>
             \A f \in LayoutFields : layoutInfo[f] = pre.layoutInfo[f]

\* The signal came while the output height shown was out of date, and the
\* listener wrote nothing back.
C12_Witness ==
    /\ lastOp.name = "onDidChangeLayout"
    /\ listener = "measuring"
    /\ lastOp.reaction = <<>>
    /\ outputFoldingState = Expanded
    /\ ~renderOutput
    /\ layoutInfo.rawOutputHeight > 0
    /\ layoutInfo.outputTotalHeight = 0
    /\ Len(events) = 1

\* The nested cell updateOutputHeight(diffSide, ...) is to reach.
TargetCell(diffSide) ==
    IF type \in {"unchanged", "modified"}
    THEN (IF diffSide = "Original" THEN "original" ELSE "modified")
    ELSE (IF type = "insert" THEN "modified" ELSE "original")

OtherCell(cell) == IF cell = "original" THEN "modified" ELSE "original"

\* C13: updateOutputHeight(diffSide, index, height) makes one call, with
\* index and height, on one nested cell: on a side-by-side element the
\* original when diffSide is Original and the modified otherwise, on a
\* single-side element the modified when type is 'insert' and the original
\* when it is 'delete', whatever diffSide is; the other cell is left alone.
\* Unless the cell raises its output-layout event, layoutInfo stays as it
\* was and no event is fired; if it does, the output height is recomputed.
C13_UpdateOutputHeightForwards ==
    lastOp.name = "updateOutputHeight" =>
        LET target == TargetCell(lastOp.value.diffSide)
        IN  /\ calls = <<CellCall(target, "updateOutputHeight",
                                  <<lastOp.value.index, lastOp.value.height>>)>>
            /\ outputHeights[OtherCell(target)] = pre.outputHeights[OtherCell(target)]
            /\ metadataFoldingState = pre.metadataFoldingState
            /\ outputFoldingState = pre.outputFoldingState
            /\ renderOutput = pre.renderOutput
            /\ ~lastOp.value.cell.raises =>
                 /\ layoutInfo = pre.layoutInfo
                 /\ outputHeights = pre.outputHeights
                 /\ events = <<>>
            /\ lastOp.value.cell.raises =>
                 /\ Len(events) = 1
                 /\ events[1].emitter = "layout"
                 /\ layoutInfo.outputTotalHeight = ExpectedOutputHeight(renderOutput)
                 /\ layoutInfo.totalHeight =
                      pre.layoutInfo.totalHeight - pre.layoutInfo.outputTotalHeight
                      + layoutInfo.outputTotalHeight
                 /\ \A f \in LayoutFields \ {"outputTotalHeight", "totalHeight"} :
                      layoutInfo[f] = pre.layoutInfo[f]

\* A height went to the modified cell of a side-by-side element, the cell
\* raised its event and the row grew.
C13_Witness ==
    /\ lastOp.name = "updateOutputHeight"
    /\ IsSideBySide
    /\ lastOp.value.diffSide = "Modified"
    /\ calls # <<>>
    /\ calls[1].cell = "modified"
    /\ lastOp.value.cell.raises
    /\ layoutInfo.outputTotalHeight > pre.layoutInfo.outputTotalHeight
    /\ outputHeights.original = pre.outputHeights.original

\* The values a setter is called with.
ValuesOf(field) == IF field = "outputStatusHeight" THEN StatusHeights ELSE Heights

\* layoutInfo after the setter of `field` has been called with `value` on
\* the element `this`, and the flags of the event it fires.
AfterSet(this, field, value) == _layout(this, (field :> value), <<>>)
LayoutAfterSet(this, field, value) == AfterSet(this, field, value).layoutInfo
FlagsOfSet(this, field, value) == AfterSet(this, field, value).log[1].flags

\* C14: with the folding states, renderOutput and the nested output heights
\* fixed, layoutInfo after a series of setter calls depends only on the
\* last value written to each field. After field := a: writing another
\* field next gives the same layoutInfo as writing the two in the other
\* order; writing the same field again with b gives what writing b alone
\* gives; and writing a again leaves layoutInfo equal and fires an event
\* with no flag.
C14_SettersCommute ==
    (lastOp.name = "set" /\ lastOp.reaction = <<>>) =>
        LET field == CHOOSE k \in DOMAIN lastOp.delta : TRUE
            a == lastOp.delta[field]
            before == [This EXCEPT !.layoutInfo = pre.layoutInfo]
        IN  /\ field \in SubMeasurements
            /\ renderOutput = pre.renderOutput
            /\ outputFoldingState = pre.outputFoldingState
            /\ outputHeights = pre.outputHeights
            /\ \A other \in SubMeasurements \ {field} : \A b \in ValuesOf(other) :
                 LayoutAfterSet(This, other, b)
                 = LayoutAfterSet(AfterSet(before, other, b), field, a)
            /\ \A b \in ValuesOf(field) :
                 LayoutAfterSet(This, field, b) = LayoutAfterSet(before, field, b)
            /\ LayoutAfterSet(This, field, a) = layoutInfo
            /\ FlagsOfSet(This, field, a) = {}

\* A raw output height was set while the output section is expanded and
\* shows it, and the row changed.
C14_Witness ==
    /\ lastOp.name = "set"
    /\ Has(lastOp.delta, "rawOutputHeight")
    /\ lastOp.delta["rawOutputHeight"] > 0
    /\ outputFoldingState = Expanded
    /\ ~renderOutput
    /\ layoutInfo.outputTotalHeight = lastOp.delta["rawOutputHeight"]
    /\ layoutInfo.outputTotalHeight # pre.layoutInfo.outputTotalHeight
    /\ layoutInfo.editorHeight > 0

\* C15: for both kinds of element and in every reachable state,
\* getOutputOffsetInCell(side, i) returns editorHeight + editorMargin +
\* metadataHeight + metadataStatusHeight + outputStatusHeight +
\* bodyMargin / 2 + getOutputOffsetInContainer(side, i), which is
\* totalHeight - outputTotalHeight - bodyMargin / 2 +
\* getOutputOffsetInContainer(side, i); the call leaves layoutInfo as it was
\* and fires no event.
C15_OutputOffsetInCell ==
    lastOp.name = "getOutputOffsetInCell" =>
        LET inContainer ==
                getOutputOffsetInContainer(This, lastOp.value.diffSide, lastOp.value.index,
                                           lastOp.value.offset).returned.value
        IN  /\ layoutInfo.bodyMargin = 32
            /\ result.query = "getOutputOffsetInCell"
            /\ ~result.thrown
            /\ result.value =
                 layoutInfo.editorHeight + layoutInfo.editorMargin
                 + layoutInfo.metadataHeight + layoutInfo.metadataStatusHeight
                 + layoutInfo.outputStatusHeight + 16 + inContainer
            /\ result.value =
                 layoutInfo.totalHeight - layoutInfo.outputTotalHeight - 16 + inContainer
            /\ inContainer = lastOp.value.offset
            /\ layoutInfo = pre.layoutInfo
            /\ events = <<>>
            /\ renderOutput = pre.renderOutput
            /\ outputFoldingState = pre.outputFoldingState
            /\ metadataFoldingState = pre.metadataFoldingState

\* The offset was asked for while the row showed an editor, margins,
\* metadata and outputs of some height.
C15_Witness ==
    /\ lastOp.name = "getOutputOffsetInCell"
    /\ IsSideBySide
    /\ lastOp.value.diffSide = "Modified"
    /\ lastOp.value.offset > 0
    /\ layoutInfo.editorHeight > 0
    /\ layoutInfo.editorMargin > 0
    /\ layoutInfo.metadataHeight > 0
    /\ layoutInfo.outputTotalHeight > 0
    /\ layoutInfo.outputStatusHeight = 0
    /\ result.value = layoutInfo.totalHeight - layoutInfo.outputTotalHeight - 16
                      + lastOp.value.offset

\* C16: reading rawOutputHeight, outputStatusHeight, editorHeight,
\* editorMargin or metadataHeight from the element throws an error that
\* points to the field of layoutInfo, leaves layoutInfo as it was and fires
\* no event; reading the field through layoutInfo returns the last value
\* its setter wrote; getNestedCellViewModel on a side-by-side element
\* throws.
C16_WriteOnly ==
    /\ \A f \in SubMeasurements :
         lastOp.name = "get " \o f =>
            /\ result.thrown
            /\ result.value = "Use Cell.layoutInfo." \o f
            /\ layoutInfo = pre.layoutInfo
            /\ events = <<>>
    /\ lastOp.name = "get layoutInfo" =>
         /\ ~result.thrown
         /\ \A f \in SubMeasurements : result.value[f] = written[f]
         /\ layoutInfo = pre.layoutInfo
         /\ events = <<>>
    /\ (lastOp.name = "getNestedCellViewModel" /\ IsSideBySide) =>
         /\ result.thrown
         /\ result.value = "Method not implemented."
         /\ layoutInfo = pre.layoutInfo
         /\ events = <<>>

\* Every setter has written a value other than the one the constructor
\* stored, and the field is then read from the element.
C16_Witness ==
    /\ lastOp.name = "get editorHeight"
    /\ result.thrown
    /\ \A f \in SubMeasurements :
         written[f] # InitialLayoutInfo[f] /\ layoutInfo[f] = written[f]

====
